---- MODULE Spec2Model ----
(***************************************************************************)
(* Model of the stuck-writeback workaround daemon (src/main.rs) and of its *)
(* system layer (src/system.rs).                                           *)
(*                                                                         *)
(* Time is counted in whole seconds.  The program's own steps take no      *)
(* time; time passes only while the program is blocked: inside             *)
(* std::thread::sleep (main.rs:151) and inside PidMonitor::recv            *)
(* (system.rs:97-99).  The operating system (processes being forked,       *)
(* exec'd and exiting, proc-connector events being queued or dropped) acts *)
(* only while the program is blocked.                                      *)
(***************************************************************************)
EXTENDS Integers, Sequences, FiniteSets, TLC

(* ------------------------------ constants ------------------------------ *)

BUSY_POLLING == 1

IDLE_POLLING == 60

MAX_MONITOR_DURATION == 60

EXPECTED_RECOVERY_TIME == 30

\* default of --runtime-threshold
DefaultRuntimeThreshold == 30

\* default of --process-glob, "kworker/*inode_switch_wbs*", as a token string
DefaultProcessGlob == <<"kworker", "/", "*", "inode_switch_wbs", "*">>

\* the glob and the uid the tests run the decision cycle with
TestProcessGlob == <<"kworker", "/", "*">>

(* -------------------------------- bounds ------------------------------- *)

\* the process table has the pids 1..MaxPid, and MaxPid processes are created
MaxPid == 2

\* the clock stops at MaxTime
MaxTime == 90

\* seconds that pass in one step while the program is blocked in recv
TickStep == 30

\* events the proc connector holds for the subscriber; further ones are dropped
MaxQueue == 1

\* a second, short --runtime-threshold
ShortThreshold == 1

\* calls of the decision cycle on one test double
MaxCalls == 3

Pids == 1..MaxPid

Uids == {0, 1000}

\* a kworker running inode_switch_wbs, and an idle one
StuckComm == <<"kworker", "/", "u8:1", "+", "inode_switch_wbs">>

IdleComm == <<"kworker", "/", "0:1">>

Comms == {StuckComm, IdleComm}

\* the processes the operating system creates: uid, comm, readable
ProcessKinds ==
    { <<0, StuckComm, TRUE>>, <<0, StuckComm, FALSE>>, <<0, IdleComm, TRUE>>,
      <<1000, StuckComm, TRUE>> }

Thresholds == {ShortThreshold}

Globs == {DefaultProcessGlob}

(* ------------------------------ data types ----------------------------- *)

\* Option<T>
None == <<>>

Some(x) == <<x>>

IsSome(o) == o # <<>>

Unwrap(o) == o[1]

\* anyhow::Result<Duration>, with the context string of the failing step
Ok(d) == [ok |-> TRUE, delay |-> d, context |-> ""]

Err(c) == [ok |-> FALSE, delay |-> 0, context |-> c]

ProcInfo(uid, starttime, comm) == [uid |-> uid, starttime |-> starttime, comm |-> comm]

\* a live entry of the process table; readable tells whether its stat, uid and
\* start time can be read
Process(uid, starttime, comm, readable) ==
    [uid |-> uid, starttime |-> starttime, comm |-> comm, readable |-> readable]

PidEvent(kind, pid) == [kind |-> kind, pid |-> pid]

(* --------------------------- pure functions ---------------------------- *)

\* glob_match(glob, path): "*" matches any run of tokens that holds no "/"
RECURSIVE glob_match(_, _)
glob_match(glob, path) ==
    IF glob = <<>> THEN path = <<>>
    ELSE IF Head(glob) = "*"
         THEN \/ glob_match(Tail(glob), path)
              \/ /\ path # <<>>
                 /\ Head(path) # "/"
                 /\ glob_match(glob, Tail(path))
         ELSE /\ path # <<>>
              /\ Head(path) = Head(glob)
              /\ glob_match(Tail(glob), Tail(path))

is_kworker_any_uid(process_glob, p) == glob_match(process_glob, p.comm)

is_kworker_any_name(process_glob, p) == p.uid = 0

\* the closure is_kworker of workaround
is_kworker(process_glob, p) == p.uid = 0 /\ glob_match(process_glob, p.comm)

to_proc_info_unchecked(p) == Some(ProcInfo(p.uid, p.starttime, p.comm))

\* to_proc_info(p).ok(): None when the metadata cannot be read
to_proc_info(p) ==
    IF p.readable THEN Some(ProcInfo(p.uid, p.starttime, p.comm)) ELSE None

\* all_processes(): the entries of the process table in ascending pid order
RECURSIVE all_processes_from(_, _)
all_processes_from(table, pid) ==
    IF pid > MaxPid THEN <<>>
    ELSE (IF IsSome(table[pid]) THEN <<Unwrap(table[pid])>> ELSE <<>>)
         \o all_processes_from(table, pid + 1)

all_processes(table) == all_processes_from(table, 1)

\* .filter_map(|p| to_proc_info(p).ok()).filter(is_kworker)
RECURSIVE filter_kworkers(_, _)
filter_kworkers(ps, process_glob) ==
    IF ps = <<>> THEN <<>>
    ELSE LET info == to_proc_info(Head(ps))
             rest == filter_kworkers(Tail(ps), process_glob)
         IN  IF IsSome(info) /\ is_kworker(process_glob, Unwrap(info))
             THEN <<Unwrap(info)>> \o rest
             ELSE rest

RECURSIVE max_by_starttime_from(_, _)
max_by_starttime_from(best, infos) ==
    IF infos = <<>> THEN best
    ELSE IF best = None \/ Head(infos).starttime > Unwrap(best).starttime
         THEN max_by_starttime_from(Some(Head(infos)), Tail(infos))
         ELSE max_by_starttime_from(best, Tail(infos))

\* Iterator::min_by_key(|p| p.starttime), folding from `best`: of several
\* equally old elements the first one is kept
RECURSIVE min_by_starttime_from(_, _)
min_by_starttime_from(best, infos) ==
    IF infos = <<>> THEN best
    ELSE IF best = None \/ Head(infos).starttime < Unwrap(best).starttime
         THEN min_by_starttime_from(Some(Head(infos)), Tail(infos))
         ELSE min_by_starttime_from(best, Tail(infos))

\* Result<Option<ProcInfo>>
OkSome(o) == [ok |-> TRUE, value |-> o]

ErrNone == [ok |-> FALSE, value |-> None]

find_oldest_kworker_strict(table, process_glob, listed) ==
    IF ~listed \/ \E pid \in Pids : IsSome(table[pid]) /\ ~Unwrap(table[pid]).readable
    THEN ErrNone
    ELSE OkSome(min_by_starttime_from(
                    None, filter_kworkers(all_processes(table), process_glob)))

\* LiveSystem::find_oldest_kworker; listed tells whether all_processes() succeeds
find_oldest_kworker(table, process_glob, listed) ==
    IF ~listed THEN ErrNone
    ELSE OkSome(min_by_starttime_from(
                    None, filter_kworkers(all_processes(table), process_glob)))

(* ------------------------- the decision cycle -------------------------- *)

\* now.signed_duration_since(kworker.starttime)
signed_duration_since(t, starttime) == t - starttime

is_over_threshold_inclusive(oldest_runtime, runtime_threshold) ==
    oldest_runtime >= runtime_threshold

\* the test `oldest_runtime > *runtime_threshold`
is_over_threshold(oldest_runtime, runtime_threshold) ==
    oldest_runtime > runtime_threshold

workaround_found_no_sync(kworker, t, runtime_threshold) ==
    IF is_over_threshold(signed_duration_since(t, kworker.starttime), runtime_threshold)
    THEN [sync |-> FALSE, ret |-> Ok(EXPECTED_RECOVERY_TIME)]
    ELSE [sync |-> FALSE, ret |-> Ok(BUSY_POLLING)]

workaround_found_no_busy_polling(kworker, t, runtime_threshold) ==
    IF is_over_threshold(signed_duration_since(t, kworker.starttime), runtime_threshold)
    THEN [sync |-> TRUE, ret |-> Ok(EXPECTED_RECOVERY_TIME)]
    ELSE [sync |-> FALSE, ret |-> Ok(0)]

workaround_found_busy_after_sync(kworker, t, runtime_threshold) ==
    IF is_over_threshold(signed_duration_since(t, kworker.starttime), runtime_threshold)
    THEN [sync |-> TRUE, ret |-> Ok(BUSY_POLLING)]
    ELSE [sync |-> FALSE, ret |-> Ok(BUSY_POLLING)]

\* workaround, the branch `if let Some(kworker) = oldest_kworker`: whether
\* system.sync() is called, and the value returned
workaround_found(kworker, t, runtime_threshold) ==
    IF is_over_threshold(signed_duration_since(t, kworker.starttime), runtime_threshold)
    THEN [sync |-> TRUE, ret |-> Ok(EXPECTED_RECOVERY_TIME)]
    ELSE [sync |-> FALSE, ret |-> Ok(BUSY_POLLING)]

workaround_scan_failure_ignored == Ok(0)

\* workaround, the `?` on a failed scan: the error with its context
workaround_scan_failed == Err("failed to scan for matching kworker processes")

workaround_waited_busy(wait_result) ==
    IF wait_result.ok THEN Ok(BUSY_POLLING)
    ELSE Err("failed to wait for kworker process")

workaround_waited_unchecked(wait_result) == Ok(0)

\* workaround, the branch without a match, once wait_for_kworker has returned
workaround_waited(wait_result) ==
    IF wait_result.ok THEN Ok(0)
    ELSE Err("failed to wait for kworker process")

\* the safety-net duration workaround passes to wait_for_kworker
wait_timeout_arg == MAX_MONITOR_DURATION

sleep_duration_of_no_backoff(r) == r.delay

\* main: the match on workaround's result
sleep_duration_of(r) == IF r.ok THEN r.delay ELSE IDLE_POLLING

(* -------------------------------- state -------------------------------- *)

VARIABLES
    now,             \* the wall clock, in seconds since the program started
    procs,           \* the process table: pid -> Option<Process>
    forked,          \* how many processes have been created so far
    monitor_open,    \* a PidMonitor (proc-connector subscription) is open
    queue,           \* events queued on the open subscription
    args,            \* Args: process_glob, runtime_threshold
    pc,              \* where the main thread is
    oldest_kworker,  \* workaround's local: the result of the scan
    start,           \* wait_for_kworker's local: the Instant it started at
    timeout,         \* wait_for_kworker's parameter
    result,          \* what the last call of workaround returned
    sleep_duration,  \* main's local
    cyc,             \* what the current decision cycle has done so far
    last_sync,       \* when sync was last invoked, if it ever was
    mock,            \* the test double MockSystem
    outcomes         \* what each call of workaround on the test double did

live_vars ==
    <<now, procs, forked, monitor_open, queue, args, pc, oldest_kworker, start,
      timeout, result, sleep_duration, cyc, last_sync>>

mock_vars == <<mock, outcomes>>

vars == <<live_vars, mock_vars>>

\* nothing done yet in this cycle
NewCycle ==
    [scans |-> 0, listed |-> FALSE, scan |-> "pending", clock_reads |-> 0, syncs |-> 0,
     waits |-> 0, opens |-> 0, wait |-> "none", ended_by |-> "none"]

NoMock == [kworker |-> None, now |-> 0, sync_calls |-> 0, wait_ok |-> TRUE]

NoResult == Ok(0)

EmptyTable == [pid \in Pids |-> None]

Init ==
    /\ now = 0
    /\ procs = EmptyTable
    /\ forked = 0
    /\ monitor_open = FALSE
    /\ queue = <<>>
    /\ \E g \in Globs, th \in Thresholds :
          args = [process_glob |-> g, runtime_threshold |-> th]
    /\ pc = "scan"
    /\ oldest_kworker = None
    /\ start = 0
    /\ timeout = 0
    /\ result = NoResult
    /\ sleep_duration = 0
    /\ cyc = NewCycle
    /\ last_sync = None
    /\ mock = NoMock
    /\ outcomes = <<>>

(* ------------------------ the program's actions ------------------------ *)

\* workaround returns r to main, which computes sleep_duration
Return(r) ==
    /\ result' = r
    /\ sleep_duration' = sleep_duration_of(r)
    /\ pc' = "sleep"

\* workaround's scan step, with the outcome r of find_oldest_kworker
Scanned(r, listed) ==
    /\ cyc' = [cyc EXCEPT !.scans = @ + 1,
                          !.listed = listed,
                          !.scan = IF ~r.ok THEN "error"
                                   ELSE IF IsSome(r.value) THEN "found" ELSE "none"]
    /\ IF r.ok
       THEN /\ oldest_kworker' = r.value
            /\ pc' = "decide"
            /\ UNCHANGED <<result, sleep_duration>>
       ELSE /\ Return(workaround_scan_failed)
            /\ UNCHANGED oldest_kworker

\* find_oldest_kworker while all_processes() fails
ScanFails ==
    /\ pc = "scan"
    /\ Scanned(find_oldest_kworker(procs, args.process_glob, FALSE), FALSE)
    /\ UNCHANGED <<now, procs, forked, monitor_open, queue, args, start, timeout,
                   last_sync, mock_vars>>

\* find_oldest_kworker while all_processes() succeeds
Scan ==
    /\ pc = "scan"
    /\ Scanned(find_oldest_kworker(procs, args.process_glob, TRUE), TRUE)
    /\ UNCHANGED <<now, procs, forked, monitor_open, queue, args, start, timeout,
                   last_sync, mock_vars>>

\* a match: read the clock, compare, maybe sync, return
Found ==
    /\ pc = "decide"
    /\ IsSome(oldest_kworker)
    /\ LET d == workaround_found(Unwrap(oldest_kworker), now, args.runtime_threshold)
       IN  /\ cyc' = [cyc EXCEPT !.clock_reads = @ + 1,
                                 !.syncs = IF d.sync THEN @ + 1 ELSE @]
           /\ last_sync' = IF d.sync THEN Some(now) ELSE last_sync
           /\ Return(d.ret)
    /\ UNCHANGED <<now, procs, forked, monitor_open, queue, args, oldest_kworker,
                   start, timeout, mock_vars>>

\* no match: wait_for_kworker is called and PidMonitor::new() succeeds
WaitBegin ==
    /\ pc = "decide"
    /\ oldest_kworker = None
    /\ timeout' = wait_timeout_arg
    /\ monitor_open' = TRUE
    /\ queue' = <<>>
    /\ start' = now
    /\ cyc' = [cyc EXCEPT !.waits = @ + 1, !.opens = @ + 1, !.wait = "running"]
    /\ pc' = "wait_loop"
    /\ UNCHANGED <<now, procs, forked, args, oldest_kworker, result, sleep_duration,
                   last_sync, mock_vars>>

\* no match: wait_for_kworker is called and PidMonitor::new() fails
WaitBeginFails ==
    /\ pc = "decide"
    /\ oldest_kworker = None
    /\ timeout' = wait_timeout_arg
    /\ cyc' = [cyc EXCEPT !.waits = @ + 1, !.wait = "error", !.ended_by = "new"]
    /\ Return(workaround_waited(Err("failed to create process event monitor (cnproc)")))
    /\ UNCHANGED <<now, procs, forked, monitor_open, queue, args, oldest_kworker,
                   start, last_sync, mock_vars>>

WaitReturn_leak_on_error(w, why) ==
    /\ monitor_open' = ~w.ok
    /\ queue' = <<>>
    /\ start' = 0
    /\ UNCHANGED timeout
    /\ cyc' = [cyc EXCEPT !.wait = IF w.ok THEN "ok" ELSE "error", !.ended_by = why]
    /\ Return(workaround_waited(w))

WaitReturn_syncing(w, why) ==
    /\ monitor_open' = FALSE
    /\ queue' = <<>>
    /\ start' = 0
    /\ UNCHANGED timeout
    /\ cyc' = [cyc EXCEPT !.wait = IF w.ok THEN "ok" ELSE "error", !.ended_by = why,
                          !.syncs = @ + 1]
    /\ Return(workaround_waited(w))

\* wait_for_kworker returns w: the monitor is dropped, workaround returns
WaitReturn(w, why) ==
    /\ monitor_open' = FALSE
    /\ queue' = <<>>
    /\ start' = 0
    /\ UNCHANGED timeout
    /\ cyc' = [cyc EXCEPT !.wait = IF w.ok THEN "ok" ELSE "error", !.ended_by = why]
    /\ Return(workaround_waited(w))

timed_out_strict(elapsed, max) == elapsed > max

\* the test `start.elapsed() >= timeout`
timed_out(elapsed, max) == elapsed >= max

wait_for_kworker_timeout_is_error == Err("timed out waiting for a matching process")

\* `return Ok(())` when the maximum duration has elapsed
wait_for_kworker_timeout == Ok(0)

\* the top of wait_for_kworker's loop
WaitLoop ==
    /\ pc = "wait_loop"
    /\ IF timed_out(now - start, timeout)
       THEN WaitReturn(wait_for_kworker_timeout, "timeout")
       ELSE /\ pc' = "recv"
            /\ UNCHANGED <<monitor_open, queue, start, timeout, cyc, result,
                           sleep_duration>>
    /\ UNCHANGED <<now, procs, forked, args, oldest_kworker, last_sync, mock_vars>>

event_pid_any_kind(event) == Some(event.pid)

\* the match on the event: the pid of an Exec or Fork, `continue` otherwise
event_pid(event) ==
    IF event.kind \in {"Exec", "Fork"} THEN Some(event.pid) ELSE None

\* Process::new(pid), to_proc_info and is_kworker on an event's pid
event_matches(table, process_glob, pid) ==
    /\ IsSome(table[pid])
    /\ IsSome(to_proc_info(Unwrap(table[pid])))
    /\ is_kworker(process_glob, Unwrap(to_proc_info(Unwrap(table[pid]))))

\* monitor.recv() returns an event, which is handled
Recv ==
    /\ pc = "recv"
    /\ queue # <<>>
    /\ LET event == Head(queue)
           pid == event_pid(event)
       IN  IF IsSome(pid) /\ event_matches(procs, args.process_glob, Unwrap(pid))
           THEN WaitReturn(Ok(0), "event")
           ELSE /\ queue' = Tail(queue)
                /\ pc' = "wait_loop"
                /\ UNCHANGED <<monitor_open, start, timeout, cyc, result, sleep_duration>>
    /\ UNCHANGED <<now, procs, forked, args, oldest_kworker, last_sync, mock_vars>>

\* monitor.recv() fails
RecvFails ==
    /\ pc = "recv"
    /\ WaitReturn(Err("failed to receive process event from kernel"), "recv")
    /\ UNCHANGED <<now, procs, forked, args, oldest_kworker, last_sync, mock_vars>>

\* main: sleep(sleep_duration), then the next iteration of the loop
Sleep ==
    /\ pc = "sleep"
    /\ now + sleep_duration <= MaxTime
    /\ now' = now + sleep_duration
    /\ pc' = "scan"
    /\ oldest_kworker' = None
    /\ result' = NoResult
    /\ sleep_duration' = 0
    /\ timeout' = 0
    /\ cyc' = NewCycle
    /\ UNCHANGED <<procs, forked, monitor_open, queue, args, start, last_sync,
                   mock_vars>>

(* --------------------- the operating system's actions ------------------ *)

Blocked == pc \in {"recv", "sleep"}

\* the proc connector queues the event on the open subscription, or drops it
Emit(event, delivered) ==
    IF monitor_open /\ delivered /\ Len(queue) < MaxQueue
    THEN queue' = Append(queue, event)
    ELSE queue' = queue

\* a process is created
Fork ==
    /\ Blocked
    /\ forked < MaxPid
    /\ \E pid \in Pids, k \in ProcessKinds, delivered \in BOOLEAN :
          /\ procs[pid] = None
          /\ procs' = [procs EXCEPT ![pid] = Some(Process(k[1], now, k[2], k[3]))]
          /\ Emit(PidEvent("Fork", pid), delivered)
    /\ forked' = forked + 1
    /\ UNCHANGED <<now, monitor_open, args, pc, oldest_kworker, start, timeout, result,
                   sleep_duration, cyc, last_sync, mock_vars>>

\* an idle kworker takes up inode_switch_wbs work: its command name changes
Exec ==
    /\ Blocked
    /\ \E pid \in Pids, delivered \in BOOLEAN :
          /\ IsSome(procs[pid])
          /\ Unwrap(procs[pid]).comm = IdleComm
          /\ procs' = [procs EXCEPT ![pid] = Some([Unwrap(@) EXCEPT !.comm = StuckComm])]
          /\ Emit(PidEvent("Exec", pid), delivered)
    /\ UNCHANGED <<now, forked, monitor_open, args, pc, oldest_kworker, start, timeout,
                   result, sleep_duration, cyc, last_sync, mock_vars>>

\* a process exits, dumping core or not
Exit ==
    /\ Blocked
    /\ \E pid \in Pids, kind \in {"Exit", "Coredump"}, delivered \in BOOLEAN :
          /\ IsSome(procs[pid])
          /\ procs' = [procs EXCEPT ![pid] = None]
          /\ Emit(PidEvent(kind, pid), delivered)
    /\ UNCHANGED <<now, forked, monitor_open, args, pc, oldest_kworker, start, timeout,
                   result, sleep_duration, cyc, last_sync, mock_vars>>

\* time passes while recv blocks on an empty queue
Tick ==
    /\ pc = "recv"
    /\ queue = <<>>
    /\ now + TickStep <= MaxTime
    /\ now' = now + TickStep
    /\ UNCHANGED <<procs, forked, monitor_open, queue, args, pc, oldest_kworker, start,
                   timeout, result, sleep_duration, cyc, last_sync, mock_vars>>

Next ==
    \/ ScanFails
    \/ Scan
    \/ Found
    \/ WaitBegin
    \/ WaitBeginFails
    \/ WaitLoop
    \/ Recv
    \/ RecvFails
    \/ Sleep
    \/ Fork
    \/ Exec
    \/ Exit
    \/ Tick

Spec == Init /\ [][Next]_vars

(* --------------- the decision cycle on the test double ----------------- *)

\* the clock of the test double
MockNow == 100

\* ages of the test double's process: the tests' 10 s and 40 s, and the threshold
MockAges == {10, DefaultRuntimeThreshold, 40}

MockGlobs == {DefaultProcessGlob, TestProcessGlob}

\* MockSystem::find_oldest_kworker
mock_find_oldest_kworker(system, process_glob) ==
    IF IsSome(system.kworker) /\ is_kworker(process_glob, Unwrap(system.kworker))
    THEN OkSome(system.kworker)
    ELSE OkSome(None)

\* MockSystem::wait_for_kworker
mock_wait_for_kworker(system) ==
    IF system.wait_ok THEN Ok(0) ELSE Err("test error")

\* MockSystem::sync
mock_sync(system) == [system EXCEPT !.sync_calls = @ + 1]

mock_workaround_sync_once(system, process_glob, runtime_threshold) ==
    LET oldest == mock_find_oldest_kworker(system, process_glob)
    IN  IF IsSome(oldest.value)
        THEN LET d == workaround_found(Unwrap(oldest.value), system.now, runtime_threshold)
             IN  IF d.sync /\ system.sync_calls = 0
                 THEN [system |-> mock_sync(system), ret |-> d.ret]
                 ELSE [system |-> system, ret |-> Ok(BUSY_POLLING)]
        ELSE [system |-> system, ret |-> workaround_waited(mock_wait_for_kworker(system))]

\* workaround(&system, process_glob, &runtime_threshold) on a MockSystem: the
\* system after the call, and the value returned
mock_workaround(system, process_glob, runtime_threshold) ==
    LET oldest == mock_find_oldest_kworker(system, process_glob)
    IN  IF ~oldest.ok THEN [system |-> system, ret |-> workaround_scan_failed]
        ELSE IF IsSome(oldest.value)
        THEN LET d == workaround_found(Unwrap(oldest.value), system.now, runtime_threshold)
             IN  [system |-> IF d.sync THEN mock_sync(system) ELSE system, ret |-> d.ret]
        ELSE [system |-> system, ret |-> workaround_waited(mock_wait_for_kworker(system))]

MockInit ==
    /\ now = 0
    /\ procs = EmptyTable
    /\ forked = 0
    /\ monitor_open = FALSE
    /\ queue = <<>>
    /\ \E g \in MockGlobs, th \in {DefaultRuntimeThreshold, ShortThreshold} :
          args = [process_glob |-> g, runtime_threshold |-> th]
    /\ pc = "test"
    /\ oldest_kworker = None
    /\ start = 0
    /\ timeout = 0
    /\ result = NoResult
    /\ sleep_duration = 0
    /\ cyc = NewCycle
    /\ last_sync = None
    /\ \E kworker \in {None} \cup
                       { Some(ProcInfo(uid, MockNow - age, comm)) :
                           uid \in Uids, age \in MockAges, comm \in Comms },
          wait_ok \in BOOLEAN :
          mock = [kworker |-> kworker, now |-> MockNow, sync_calls |-> 0,
                  wait_ok |-> wait_ok]
    /\ outcomes = <<>>

\* one more call of workaround on the same, otherwise untouched, test double
MockCall ==
    /\ pc = "test"
    /\ Len(outcomes) < MaxCalls
    /\ LET r == mock_workaround(mock, args.process_glob, args.runtime_threshold)
       IN  /\ mock' = r.system
           /\ outcomes' = Append(outcomes,
                                 [ret |-> r.ret,
                                  syncs |-> r.system.sync_calls - mock.sync_calls])
    /\ UNCHANGED live_vars

MockNext == MockCall

MockSpec == MockInit /\ [][MockNext]_vars

(* -------------------------------- claims -------------------------------- *)

\* workaround has returned to main and main has not slept yet; the clock
\* still shows the time workaround read
CycleDone == pc = "sleep"

\* now - start_time of the process the scan of this cycle returned
OldestRuntime == now - Unwrap(oldest_kworker).starttime

InWait == pc \in {"wait_loop", "recv"}

\* the records of the processes whose metadata to_proc_info could read and
\* that satisfy the predicate
MatchingInfos ==
    { Unwrap(to_proc_info(Unwrap(procs[pid]))) :
        pid \in { q \in Pids : /\ IsSome(procs[q])
                               /\ IsSome(to_proc_info(Unwrap(procs[q])))
                               /\ is_kworker(args.process_glob,
                                             Unwrap(to_proc_info(Unwrap(procs[q])))) } }

\* C1: a cycle whose scan returned a match with now - start_time > threshold
\* called sync exactly once and returned the recovery pause, 30 s.
Claim_C1 ==
    (CycleDone /\ cyc.scan = "found" /\ OldestRuntime > args.runtime_threshold)
        => /\ cyc.syncs = 1
           /\ result = Ok(EXPECTED_RECOVERY_TIME)
           /\ result.delay = 30

Witness_C1 ==
    /\ CycleDone
    /\ cyc.scan = "found"
    /\ OldestRuntime > args.runtime_threshold
    /\ cyc.syncs = 1
    /\ sleep_duration = 30

\* C2: a cycle whose scan returned a match with now - start_time <= threshold
\* (equal included) called neither sync nor the event wait and returned the
\* busy-poll interval, 1 s.
Claim_C2 ==
    (CycleDone /\ cyc.scan = "found" /\ OldestRuntime <= args.runtime_threshold)
        => /\ cyc.syncs = 0
           /\ cyc.waits = 0
           /\ result = Ok(BUSY_POLLING)
           /\ result.delay = 1

Witness_C2 ==
    /\ CycleDone
    /\ cyc.scan = "found"
    /\ OldestRuntime = args.runtime_threshold
    /\ cyc.syncs = 0
    /\ sleep_duration = 1

\* C3: a cycle whose scan found no match calls the event wait, once and with
\* the 60 s safety-net duration, never calls sync, and returns a zero delay
\* when the wait returned successfully.
Claim_C3 ==
    cyc.scan = "none"
        => /\ cyc.syncs = 0
           /\ pc # "decide" => (cyc.waits = 1 /\ timeout = 60)
           /\ (CycleDone /\ cyc.wait = "ok") => result = Ok(0)
           /\ CycleDone => cyc.wait \in {"ok", "error"}

Witness_C3 ==
    /\ CycleDone
    /\ cyc.scan = "none"
    /\ cyc.wait = "ok"
    /\ cyc.ended_by = "event"
    /\ result = Ok(0)

\* C4: the bounded wait is over once its maximum duration has elapsed: it is
\* never still blocked later than that, whatever events are delivered or not.
Claim_C4 == pc = "recv" => now - start <= timeout

\* C5: while no match exists the process list is re-scanned at least once per
\* safety-net period: a matching readable root-owned process that appeared
\* during the event wait is never left unscanned for longer than 60 s.
Claim_C5 ==
    \A pid \in Pids :
        ( /\ InWait
          /\ IsSome(procs[pid])
          /\ Unwrap(procs[pid]).readable
          /\ is_kworker(args.process_glob, Unwrap(procs[pid]))
          /\ Unwrap(procs[pid]).starttime >= start )
            => now - Unwrap(procs[pid]).starttime <= MAX_MONITOR_DURATION

\* C6: a cycle whose wait step failed returned an error and did not call sync.
Claim_C6 ==
    (CycleDone /\ cyc.wait = "error") => (~result.ok /\ cyc.syncs = 0)

Witness_C6 ==
    /\ CycleDone
    /\ cyc.wait = "error"
    /\ cyc.ended_by = "recv"
    /\ ~result.ok

\* C7: the scan returns a record that satisfies the predicate and whose start
\* time is the least among the records satisfying it, and none exactly when no
\* record satisfies it; the cycle syncs exactly when that earliest start time
\* is more than the threshold ago.
Claim_C7 ==
    /\ pc = "decide" =>
          IF MatchingInfos = {} THEN oldest_kworker = None
          ELSE /\ IsSome(oldest_kworker)
               /\ Unwrap(oldest_kworker) \in MatchingInfos
               /\ \A m \in MatchingInfos : Unwrap(oldest_kworker).starttime <= m.starttime
    /\ (CycleDone /\ cyc.scan = "found") =>
          (cyc.syncs = 1 <=> OldestRuntime > args.runtime_threshold)

\* two matching processes; the older one has the higher pid and is returned
Witness_C7 ==
    /\ pc = "decide"
    /\ Cardinality(MatchingInfos) = 2
    /\ IsSome(procs[1]) /\ IsSome(procs[2])
    /\ Unwrap(procs[2]).starttime < Unwrap(procs[1]).starttime
    /\ Unwrap(oldest_kworker).starttime = Unwrap(procs[2]).starttime

\* C8: the driver sleeps the 60 s idle back-off after a cycle that returned an
\* error and exactly the returned duration after a cycle that succeeded, and in
\* both cases then starts another cycle.
Claim_C8 ==
    [][ /\ (pc' = "sleep") =>
              sleep_duration' = (IF result'.ok THEN result'.delay ELSE 60)
        /\ (pc = "sleep" /\ pc' # "sleep") =>
              (pc' = "scan" /\ now' = now + sleep_duration) ]_vars

Witness_C8 ==
    /\ pc = "scan"
    /\ now = 60
    /\ forked = 0

\* C9: a process whose metadata cannot be read is skipped: when the process
\* table could be listed the scan succeeds and returns the oldest match among
\* the readable processes; the scan fails only when the listing fails.
Claim_C9 ==
    LET readable_matches ==
            { q \in Pids : /\ IsSome(procs[q])
                           /\ Unwrap(procs[q]).readable
                           /\ Unwrap(procs[q]).uid = 0
                           /\ glob_match(args.process_glob, Unwrap(procs[q]).comm) }
    IN  /\ cyc.scans > 0 => (cyc.scan = "error" <=> ~cyc.listed)
        /\ pc = "decide" =>
              IF readable_matches = {} THEN oldest_kworker = None
              ELSE /\ IsSome(oldest_kworker)
                   /\ \E q \in readable_matches :
                         /\ Unwrap(oldest_kworker).starttime = Unwrap(procs[q]).starttime
                         /\ Unwrap(oldest_kworker).comm = Unwrap(procs[q]).comm
                   /\ \A q \in readable_matches :
                         Unwrap(oldest_kworker).starttime <= Unwrap(procs[q]).starttime

\* an unreadable process that would match and is older than every readable
\* match; the scan returned a readable one
Witness_C9 ==
    /\ pc = "decide"
    /\ IsSome(oldest_kworker)
    /\ \E q \in Pids :
          /\ IsSome(procs[q])
          /\ ~Unwrap(procs[q]).readable
          /\ is_kworker(args.process_glob, Unwrap(procs[q]))
          /\ Unwrap(procs[q]).starttime < Unwrap(oldest_kworker).starttime

\* C10: calls of the decision cycle on an unchanged snapshot, clock and wait
\* result all return the same value and call sync the same number of times,
\* however many calls came before.
Claim_C10 ==
    \A i, j \in 1..Len(outcomes) : outcomes[i] = outcomes[j]

Witness_C10 ==
    /\ Len(outcomes) = MaxCalls
    /\ outcomes[MaxCalls].syncs = 1
    /\ mock.sync_calls = MaxCalls

\* C11: every call of the bounded wait opens one subscription, and the
\* subscription is closed when the call returns, however it returns: one is
\* open exactly while the engine is inside the wait loop, never more than one
\* was opened by a call, and none is left open or queued on after the return.
Claim_C11 ==
    /\ monitor_open <=> InWait
    /\ cyc.opens <= cyc.waits
    /\ cyc.waits <= 1
    /\ InWait => cyc.opens = 1
    /\ cyc.wait \in {"running", "ok"} => cyc.opens = 1
    /\ ~monitor_open => queue = <<>>

\* the wait ended on a receive error with an event still queued, and the
\* subscription is closed
Witness_C11 ==
    /\ CycleDone
    /\ cyc.opens = 1
    /\ cyc.ended_by = "recv"
    /\ ~monitor_open

\* what C12 says of a single state: nothing is done in a cycle before its
\* scan, a sync belongs to a cycle whose own scan returned a match older than
\* the threshold and that never waited, and a cycle whose wait returned
\* successfully asks for a sleep of zero
ScanFirstAndSyncFromScan ==
    /\ cyc.scans = 0 => (cyc.clock_reads = 0 /\ cyc.syncs = 0 /\ cyc.waits = 0)
    /\ cyc.syncs > 0 =>
          /\ cyc.scan = "found"
          /\ cyc.waits = 0
          /\ CycleDone
          /\ OldestRuntime > args.runtime_threshold
    /\ (CycleDone /\ cyc.wait = "ok") => (sleep_duration = 0 /\ cyc.syncs = 0)

\* C12: the scan is the first system operation of every cycle; sync is only
\* called in a cycle whose own scan returned a match older than the threshold,
\* never as a consequence of the wait returning; and once the wait has
\* returned by event or timeout the loop goes on, with no time passing, to a
\* fresh scan.
Claim_C12 ==
    [][ /\ ScanFirstAndSyncFromScan
        /\ ScanFirstAndSyncFromScan'
        /\ (pc = "sleep" /\ cyc.wait = "ok" /\ pc' # "sleep") =>
              (pc' = "scan" /\ now' = now /\ cyc' = NewCycle)
        /\ (pc = "scan" /\ pc' # "scan") => (cyc.scans = 0 /\ cyc'.scans = 1) ]_vars

\* the wait has returned on its timeout, some time after it began, and the
\* cycle asks for no sleep
Witness_C12 ==
    /\ CycleDone
    /\ cyc.wait = "ok"
    /\ cyc.ended_by = "timeout"
    /\ sleep_duration = 0
    /\ now >= MAX_MONITOR_DURATION

\* C13: a cycle whose scan failed has returned an error that names the scan,
\* after exactly one scan, without reading the clock, calling the wait or
\* calling sync.
Claim_C13 ==
    cyc.scan = "error"
        => /\ CycleDone
           /\ ~result.ok
           /\ result.context = "failed to scan for matching kworker processes"
           /\ cyc.scans = 1
           /\ cyc.clock_reads = 0
           /\ cyc.waits = 0
           /\ cyc.syncs = 0
           /\ ~monitor_open

\* the scan failed while a readable root-owned match older than the threshold
\* was running
Witness_C13 ==
    /\ cyc.scan = "error"
    /\ CycleDone
    /\ \E m \in MatchingInfos : now - m.starttime > args.runtime_threshold

\* monitor.recv() has returned an event and the event has been handled
RecvStep == pc = "recv" /\ pc' # "recv" /\ cyc'.ended_by # "recv"

\* the event recv returns next is a fork or exec whose process is still
\* running, can be read, is owned by root and has a name the glob matches
HeadEventMatches ==
    LET event == Head(queue)
    IN  /\ event.kind \in {"Fork", "Exec"}
        /\ IsSome(procs[event.pid])
        /\ Unwrap(procs[event.pid]).readable
        /\ Unwrap(procs[event.pid]).uid = 0
        /\ glob_match(args.process_glob, Unwrap(procs[event.pid]).comm)

\* C14: an event ends the wait only if it is a fork or exec event whose
\* process can still be resolved to a record that satisfies the predicate;
\* every other event is consumed and leaves the wait running, which then ends
\* only by a later matching event, by the timeout test or by a receive error.
Claim_C14 ==
    [][ /\ RecvStep =>
              /\ queue # <<>>
              /\ IF HeadEventMatches
                 THEN pc' = "sleep" /\ cyc'.ended_by = "event" /\ cyc'.wait = "ok"
                 ELSE /\ pc' = "wait_loop"
                      /\ monitor_open'
                      /\ cyc'.wait = "running"
                      /\ queue' = Tail(queue)
                      /\ start' = start
        /\ (cyc'.ended_by = "event" /\ cyc.ended_by # "event") =>
              (RecvStep /\ HeadEventMatches)
        /\ (pc = "wait_loop" /\ pc' = "sleep") =>
              (now - start >= timeout /\ cyc'.ended_by = "timeout") ]_vars

\* an event was ignored some time into the wait, and the wait goes on
Witness_C14 ==
    /\ pc = "recv"
    /\ cyc.wait = "running"
    /\ queue = <<>>
    /\ now > start
    /\ now - start < timeout
    /\ \E pid \in Pids : IsSome(procs[pid]) /\ Unwrap(procs[pid]).starttime = now

\* C15: the wait returns an error only when the subscription could not be
\* opened or when receiving an event failed; reaching the maximum duration
\* ends the wait successfully.
Claim_C15 ==
    /\ cyc.wait = "error" => cyc.ended_by \in {"new", "recv"}
    /\ cyc.ended_by \in {"new", "recv"} => cyc.wait = "error"
    /\ cyc.ended_by = "timeout" =>
          /\ cyc.wait = "ok"
          /\ CycleDone
          /\ result = Ok(0)
          /\ sleep_duration = 0
    /\ (CycleDone /\ cyc.waits = 1 /\ ~result.ok) =>
          result.context = "failed to wait for kworker process"

\* one wait ended by the timeout test with success, after the deadline had
\* been overrun
Witness_C15 ==
    /\ CycleDone
    /\ cyc.ended_by = "timeout"
    /\ result.ok
    /\ now > MAX_MONITOR_DURATION

\* the two conditions of the predicate, on a process of the table
OwnedByRootAndNamed(p) == p.uid = 0 /\ glob_match(args.process_glob, p.comm)

\* every running process is owned by another user or has another name
OnlyOtherProcesses ==
    \A pid \in Pids : IsSome(procs[pid]) => ~OwnedByRootAndNamed(Unwrap(procs[pid]))

\* C16: a process that is not owned by uid 0, or whose name the glob does not
\* match, is never the scan's result, never causes a sync and never ends a
\* wait, whatever its age; while only such processes run, a scan finds no
\* match and the cycle takes the no-match path.
Claim_C16 ==
    [][ /\ IsSome(oldest_kworker') =>
              /\ OwnedByRootAndNamed(Unwrap(oldest_kworker'))
              /\ oldest_kworker' # oldest_kworker =>
                    \E pid \in Pids :
                        /\ IsSome(procs[pid])
                        /\ OwnedByRootAndNamed(Unwrap(procs[pid]))
                        /\ Unwrap(oldest_kworker').starttime =
                               Unwrap(procs[pid]).starttime
                        /\ Unwrap(oldest_kworker').comm = Unwrap(procs[pid]).comm
        /\ cyc'.syncs > cyc.syncs =>
              /\ IsSome(oldest_kworker)
              /\ OwnedByRootAndNamed(Unwrap(oldest_kworker))
        /\ (cyc'.ended_by = "event" /\ cyc.ended_by # "event") =>
              /\ IsSome(procs[Head(queue).pid])
              /\ OwnedByRootAndNamed(Unwrap(procs[Head(queue).pid]))
        /\ (OnlyOtherProcesses /\ pc = "scan" /\ cyc'.listed) =>
              (pc' = "decide" /\ cyc'.scan = "none" /\ oldest_kworker' = None)
        /\ (OnlyOtherProcesses /\ pc = "decide") =>
              (cyc'.waits = 1 /\ cyc'.syncs = 0 /\ cyc'.clock_reads = 0)
        /\ (OnlyOtherProcesses /\ pc = "recv" /\ pc' # "recv") =>
              cyc'.ended_by # "event" ]_vars

\* a cycle took the no-match path and waited to the timeout although a
\* process of another user with a matching name was older than the threshold
\* and a root process with another name was running
Witness_C16 ==
    /\ CycleDone
    /\ cyc.scan = "none"
    /\ cyc.ended_by = "timeout"
    /\ cyc.syncs = 0
    /\ OnlyOtherProcesses
    /\ \E pid \in Pids :
          /\ IsSome(procs[pid])
          /\ Unwrap(procs[pid]).uid # 0
          /\ glob_match(args.process_glob, Unwrap(procs[pid]).comm)
          /\ now - Unwrap(procs[pid]).starttime > args.runtime_threshold
    /\ \E pid \in Pids :
          /\ IsSome(procs[pid])
          /\ Unwrap(procs[pid]).uid = 0
          /\ ~glob_match(args.process_glob, Unwrap(procs[pid]).comm)

\* workaround is about to call wait_for_kworker, or the call is running
InWaitCall == InWait \/ (pc = "decide" /\ oldest_kworker = None)

\* C17: no step of wait_for_kworker invokes sync: from the call to the return,
\* by a matching event, by the timeout or by an error, the number of sync
\* invocations stays what it was.
Claim_C17 ==
    [][ InWaitCall =>
            /\ cyc'.syncs = cyc.syncs
            /\ pc' = "sleep" => (cyc'.waits = 1 /\ cyc'.syncs = 0) ]_vars

\* a wait was ended by the event of a root process whose name matches and
\* which is already older than the threshold, and nothing was synced
Witness_C17 ==
    /\ CycleDone
    /\ cyc.waits = 1
    /\ cyc.ended_by = "event"
    /\ cyc.syncs = 0
    /\ \E m \in MatchingInfos : now - m.starttime > args.runtime_threshold

\* this step invokes sync
SyncStep == cyc'.syncs > cyc.syncs

\* C18: syncs are rate-limited: a cycle syncs at most once, the driver then
\* sleeps EXPECTED_RECOVERY_TIME before the next cycle, and a sync follows a
\* scan of its own cycle; so two consecutive syncs are at least 30 s apart
\* with a fresh scan between them.
Claim_C18 ==
    [][ /\ SyncStep =>
              /\ cyc.syncs = 0
              /\ cyc.scans = 1
              /\ cyc.scan = "found"
              /\ last_sync' = Some(now)
              /\ sleep_duration' = EXPECTED_RECOVERY_TIME
              /\ IsSome(last_sync) => now - Unwrap(last_sync) >= EXPECTED_RECOVERY_TIME
        /\ ~SyncStep => last_sync' = last_sync
        /\ (pc = "sleep" /\ cyc.syncs = 1 /\ pc' # "sleep") =>
              /\ now' - now >= EXPECTED_RECOVERY_TIME
              /\ pc' = "scan"
              /\ cyc' = NewCycle ]_vars

\* a sync, the 30 s sleep and a fresh scan have happened, and the scan found
\* a match over the threshold again: the next step is the second sync
Witness_C18 ==
    /\ pc = "decide"
    /\ IsSome(last_sync)
    /\ now - Unwrap(last_sync) = EXPECTED_RECOVERY_TIME
    /\ cyc.scans = 1
    /\ IsSome(oldest_kworker)
    /\ OldestRuntime > args.runtime_threshold

\* C19: the driver never spins without blocking: when a cycle is over, main
\* sleeps 1, 30 or 60 seconds, or it sleeps zero seconds after a cycle whose
\* scan found no match and whose blocking wait returned successfully, by an
\* event it received or by the timeout after the maximum duration.
Claim_C19 ==
    CycleDone =>
        \/ /\ sleep_duration = BUSY_POLLING
           /\ result.ok
           /\ cyc.scan = "found"
           /\ cyc.syncs = 0
        \/ /\ sleep_duration = EXPECTED_RECOVERY_TIME
           /\ result.ok
           /\ cyc.scan = "found"
           /\ cyc.syncs = 1
        \/ /\ sleep_duration = IDLE_POLLING
           /\ ~result.ok
        \/ /\ sleep_duration = 0
           /\ result.ok
           /\ cyc.scan = "none"
           /\ cyc.waits = 1
           /\ cyc.wait = "ok"
           /\ cyc.ended_by \in {"event", "timeout"}
           /\ cyc.ended_by = "timeout" => now >= MAX_MONITOR_DURATION

\* the shortest iteration: the wait returned on an event without any time
\* passing, and main is about to sleep zero seconds
Witness_C19 ==
    /\ CycleDone
    /\ sleep_duration = 0
    /\ cyc.scan = "none"
    /\ cyc.ended_by = "event"
    /\ now = 0

====
